---------------------------- MODULE Spec2Model ----------------------------
(***************************************************************************)
(* The alert decision pipeline: the rule scorer (src/rules/ruleScorer.js), *)
(* the alert fusion engine (src/alerts/alertEngine.js) and the file-backed *)
(* alert store (src/alerts/alertStore.js), with the route handlers that    *)
(* drive the store's lifecycle operations.                                 *)
(*                                                                         *)
(* Conventions.  A JavaScript value that may be null/undefined is a        *)
(* sequence: <<>> for null/undefined and <<v>> for the value v.  Times are *)
(* milliseconds since the epoch; an ISO timestamp produced by              *)
(* Date.toISOString and read back by new Date(s).getTime() keeps its       *)
(* millisecond value, so a timestamp is carried as that integer.           *)
(* Temperatures and lab values with one decimal are carried in tenths.     *)
(***************************************************************************)
EXTENDS Integers, Sequences, FiniteSets, TLC

VARIABLES
    alerts,     \* alertStore.js `alerts`: in-memory cache, newest first
    disk,       \* content of reports_store/alerts.json
    now,        \* Date.now()
    nextId,     \* number of identifiers uuidv4() has handed out, plus one
    pending,    \* fusion calls suspended at `await classifyMessageLLM`
    emitted,    \* the last alert handed to io.emit('alert:new', ...)
    last,       \* the last completed operation: its inputs' facts and result
    rec,        \* the measurement record handed to computeRuleScore
    result      \* what computeRuleScore returned for rec

vars == <<alerts, disk, now, nextId, pending, emitted, last, rec, result>>

storeVars == <<alerts, disk, now, nextId, pending, emitted, last>>
scoreVars == <<rec, result>>

----------------------------------------------------------------------------
(* Bounds of the exploration *)

\* alerts created in one behaviour (uuidv4 identifiers handed out)
MaxCreated == 1
\* clock steps in one behaviour
MaxTicks == 2
\* fusion calls suspended on the classifier at the same time
MaxPending == 2
\* fields of a measurement record changed from its starting record
MaxEdits == 2

----------------------------------------------------------------------------
(* Program constants *)

COOLDOWN_MS == 1000 * 60 * 5
MAX_ALERTS == 2000
\* getRecentForPatient(patientId, 20) in isWithinCooldown
CooldownLookback == 20
\* Math.min(..., 200) in getRecentForPatient
PatientLimitCap == 200
\* text.slice(0, 200) in classifyMessageLLM
ReasonSliceLen == 200
\* the clock advances in steps of half a cooldown window
TickMs == COOLDOWN_MS \div 2

----------------------------------------------------------------------------
(* JavaScript values *)

NULL == <<>>
Some(v) == <<v>>
Has(o) == o # <<>>
Val(o) == o[1]

Min(a, b) == IF a <= b THEN a ELSE b
Max(a, b) == IF a >= b THEN a ELSE b

\* Array.prototype.slice(0, n)
Slice(s, n) == SubSeq(s, 1, Min(Len(s), n))

\* String.prototype.toLowerCase on the identifiers and words of the model
LowerTable ==
    [x \in {"P1", "p1", "P2", "Active", "Bleeding", "UNCONTROLLED", "Severe",
            "EMERGENCY", "Priority", "E", "P", "N", "CABG"} |->
        CASE x = "P1" -> "p1"
          [] x = "CABG" -> "cabg"
          [] x = "p1" -> "p1"
          [] x = "P2" -> "p2"
          [] x = "Active" -> "active"
          [] x = "Bleeding" -> "bleeding"
          [] x = "UNCONTROLLED" -> "uncontrolled"
          [] x = "Severe" -> "severe"
          [] x = "EMERGENCY" -> "emergency"
          [] x = "Priority" -> "priority"
          [] x = "E" -> "e"
          [] x = "P" -> "p"
          [] x = "N" -> "n"]

toLowerCase(x) == IF x \in DOMAIN LowerTable THEN LowerTable[x] ELSE x

----------------------------------------------------------------------------
(* ruleScorer.js: computeRuleScore.  A parsed record carries its symptoms,  *)
(* medications, comorbidities and procedure codes as sequences of strings,  *)
(* wound phrases as sequences of negated flags, drains as sequences of      *)
(* optional volumes, and notes as one string.  A breakdown entry            *)
(* "reason (+pts)" is carried as the record [reason, pts].                  *)

\* const add = (pts, reason) => { score += pts; breakdown.push(...) }
add(pts, reason) == << [reason |-> reason, pts |-> pts] >>

When(cond, entries) == IF cond THEN entries ELSE <<>>

\* the strings of the model each regular expression or keyword list matches
HighRiskProcs == {"cabg", "laparotomy", "major"}
RespiratoryPattern == {"shortness of breath", "sob", "dyspnea", "chest pain"}
BleedingPattern == {"bleeding", "hematoma", "hemorrhage"}
AnticoagPattern == {"warfarin", "heparin", "aspirin"}
OliguriaPattern == {"oliguria", "no urine"}
MentalStatusPattern == {"confusion", "delirium", "lethargy"}
SeverePainPattern == {"severe pain", "uncontrolled pain"}
ChestPainPattern == {"chest pain"}
ArrhythmiaPattern == {"palpitation"}
MajorComorbs == {"diabetes", "heart failure", "ckd", "copd", "cancer"}
SteroidPattern == {"steroid", "predni", "dexamethasone"}

\* arr.some(x => pattern.test(x))
SomeIn(arr, pattern) == \E i \in 1..Len(arr) : arr[i] \in pattern

\* note.includes(w) on the notes of the model
NoteContains ==
    { <<"patient unstable", "unstable">>,
      <<"transfer to icu", "transfer to icu">>, <<"transfer to icu", "icu">>,
      <<"elevated troponin", "elevated troponin">> }

NoteIncludes(note, w) == <<note, w>> \in NoteContains

redflagWords ==
    << "poor perfusion", "unstable", "transfer to icu", "icu", "escalate", "urgent",
       "worsening rapidly", "need reoperation", "re-explore", "critical" >>

AgeEntries(parsed) ==
    IF Has(parsed.age) /\ Val(parsed.age) # 0 THEN
        IF Val(parsed.age) >= 85 THEN add(3, <<"Age >=85">>)
        ELSE IF Val(parsed.age) >= 75 THEN add(2, <<"Age 75-84">>)
        ELSE IF Val(parsed.age) >= 65 THEN add(1, <<"Age 65-74">>)
        ELSE <<>>
    ELSE <<>>

ProcedureEntries(parsed) ==
    LET found == SelectSeq(parsed.procedureCodes, LAMBDA c : toLowerCase(c) \in HighRiskProcs)
    IN  When(Len(found) > 0, add(3, <<"High-risk procedure:", toLowerCase(Head(found))>>))

TemperatureEntries(parsed) ==
    IF Has(parsed.tempC) THEN
        IF Val(parsed.tempC) >= 390 THEN add(4, <<"Fever >=39C">>)
        ELSE IF Val(parsed.tempC) >= 380 THEN add(2, <<"Fever 38-38.9C">>)
        ELSE <<>>
    ELSE <<>>

HeartRateEntries(parsed) ==
    IF Has(parsed.hr) THEN
        IF Val(parsed.hr) >= 130 THEN add(3, <<"Severe tachycardia HR>=130">>)
        ELSE IF Val(parsed.hr) >= 110 THEN add(2, <<"Tachycardia HR 110-129">>)
        ELSE IF Val(parsed.hr) < 50 THEN add(2, <<"Bradycardia HR<50">>)
        ELSE <<>>
    ELSE <<>>

RespiratoryEntries(parsed) ==
    (IF Has(parsed.rr) THEN
        IF Val(parsed.rr) >= 30 THEN add(3, <<"Tachypnea RR>=30">>)
        ELSE IF Val(parsed.rr) >= 24 THEN add(1, <<"Tachypnea RR 24-29">>)
        ELSE <<>>
     ELSE <<>>)
    \o When(SomeIn(parsed.symptoms, RespiratoryPattern), add(3, <<"Respiratory symptoms">>))

Spo2Entries(parsed) ==
    IF Has(parsed.spo2) THEN
        IF Val(parsed.spo2) < 90 THEN add(4, <<"SpO2 <90%">>)
        ELSE IF Val(parsed.spo2) < 94 THEN add(2, <<"SpO2 90-93%">>)
        ELSE <<>>
    ELSE <<>>

BloodPressureEntries(parsed) ==
    IF Has(parsed.bp) /\ Has(Val(parsed.bp).sys) THEN
        LET s == Val(Val(parsed.bp).sys)
            d == IF Has(Val(parsed.bp).dia) THEN Val(Val(parsed.bp).dia) ELSE 0
        IN  (IF s >= 180 \/ s <= 80 THEN add(3, <<"Systolic BP extreme">>)
             ELSE IF s >= 160 THEN add(1, <<"High systolic BP >=160">>)
             ELSE <<>>)
            \o When(d >= 110, add(2, <<"Diastolic severe hypertension">>))
    ELSE <<>>

WoundEntries(parsed) ==
    LET woundActive == \E i \in 1..Len(parsed.woundPhrases) : ~parsed.woundPhrases[i].negated
    IN  When(woundActive, add(3, <<"Wound/surgical site concern">>))

DrainEntries(parsed) ==
    LET highDrain == \E i \in 1..Len(parsed.drains) :
                        /\ Has(parsed.drains[i].ml)
                        /\ Val(parsed.drains[i].ml) # 0
                        /\ Val(parsed.drains[i].ml) >= 200
    IN  When(Len(parsed.drains) > 0 /\ highDrain, add(2, <<"High drain output">>))

BleedingEntries(parsed) ==
    LET bleedingMention == SomeIn(parsed.symptoms, BleedingPattern)
        onAnticoag == SomeIn(parsed.meds, AnticoagPattern)
    IN  When(bleedingMention, add(4, <<"Active bleeding">>))
        \o When(onAnticoag /\ ~bleedingMention,
                add(1, <<"On anticoagulant/antiplatelet therapy">>))
        \o When(onAnticoag /\ bleedingMention, add(2, <<"Anticoagulant + bleeding risk">>))

LabEntries(parsed) ==
    LET wbc == parsed.labs.wbc
        lac == parsed.labs.lactate
    IN  (IF Has(wbc) THEN
            IF Val(wbc) >= 150 THEN add(3, <<"High WBC >=15">>)
            ELSE IF Val(wbc) >= 110 THEN add(1, <<"WBC 11-14.9">>)
            ELSE IF Val(wbc) < 40 THEN add(1, <<"Low WBC <4">>)
            ELSE <<>>
         ELSE <<>>)
        \o (IF Has(lac) THEN
               IF Val(lac) >= 40 THEN add(4, <<"Lactate >=4 (shock marker)">>)
               ELSE IF Val(lac) >= 20 THEN add(2, <<"Lactate 2-3.9">>)
               ELSE <<>>
            ELSE <<>>)

Sign(cond) == IF cond THEN 1 ELSE 0

SepsisEntries(parsed) ==
    LET wbc == parsed.labs.wbc
        sepsisSigns ==
            Sign(Has(parsed.tempC) /\ Val(parsed.tempC) >= 380)
            + Sign(Has(wbc) /\ Val(wbc) >= 110)
            + Sign(Has(parsed.hr) /\ Val(parsed.hr) >= 90)
            + Sign(Has(parsed.rr) /\ Val(parsed.rr) >= 22)
            + Sign(Has(parsed.spo2) /\ Val(parsed.spo2) < 94)
    IN  When(sepsisSigns >= 3, add(5, <<"Sepsis suspicion">>))

RenalEntries(parsed) ==
    LET cr == parsed.labs.cr
    IN  (IF Has(cr) THEN
            IF Val(cr) >= 20 THEN add(3, <<"Elevated creatinine >=2.0">>)
            ELSE IF Val(cr) >= 15 THEN add(1, <<"Elevated creatinine 1.5-1.99">>)
            ELSE <<>>
         ELSE <<>>)
        \o When(SomeIn(parsed.symptoms, OliguriaPattern), add(3, <<"Oliguria/AKI sign">>))

NeuroAndPainEntries(parsed) ==
    When(SomeIn(parsed.symptoms, MentalStatusPattern), add(4, <<"Altered mental status">>))
    \o When(SomeIn(parsed.symptoms, SeverePainPattern), add(2, <<"Uncontrolled severe pain">>))

CardiacEntries(parsed) ==
    LET cardiacIschemia ==
            \/ SomeIn(parsed.symptoms, ChestPainPattern)
            \/ Has(parsed.labs.troponin)
            \/ (parsed.notes # "" /\ NoteIncludes(parsed.notes, "elevated troponin"))
    IN  When(cardiacIschemia, add(4, <<"Cardiac ischemia/elevated troponin">>))
        \o When(SomeIn(parsed.symptoms, ArrhythmiaPattern), add(2, <<"Arrhythmia symptom">>))

ComorbidityEntries(parsed) ==
    LET comCount == Len(SelectSeq(parsed.comorbidities, LAMBDA c : c \in MajorComorbs))
    IN  IF comCount >= 2 THEN add(2, <<"Multiple major comorbidities">>)
        ELSE IF comCount = 1 THEN add(1, <<"Major comorbidity">>)
        ELSE <<>>

BloodCountEntries(parsed) ==
    LET hb == parsed.labs.hb
        plt == parsed.labs.platelets
    IN  (IF Has(hb) THEN
            IF Val(hb) < 70 THEN add(4, <<"Severe anemia (Hb<7)">>)
            ELSE IF Val(hb) < 90 THEN add(2, <<"Moderate anemia (Hb 7-8.9)">>)
            ELSE <<>>
         ELSE <<>>)
        \o When(Has(plt) /\ Val(plt) < 500, add(3, <<"Thrombocytopenia <50k">>))

SteroidEntries(parsed) ==
    When(SomeIn(parsed.meds, SteroidPattern), add(1, <<"On immunosuppressant/steroid">>))

\* for (const w of redflagWords) { if (note.includes(w)) { add(5, ...); break; } }
RedFlagEntries(parsed) ==
    LET hits == SelectSeq(redflagWords, LAMBDA w : NoteIncludes(parsed.notes, w))
    IN  When(Len(hits) > 0, add(5, <<"Clinician red flag:", Head(hits)>>))

Breakdown(parsed) ==
    AgeEntries(parsed) \o ProcedureEntries(parsed) \o TemperatureEntries(parsed)
    \o HeartRateEntries(parsed) \o RespiratoryEntries(parsed) \o Spo2Entries(parsed)
    \o BloodPressureEntries(parsed) \o WoundEntries(parsed) \o DrainEntries(parsed)
    \o BleedingEntries(parsed) \o LabEntries(parsed) \o SepsisEntries(parsed)
    \o RenalEntries(parsed) \o NeuroAndPainEntries(parsed) \o CardiacEntries(parsed)
    \o ComorbidityEntries(parsed) \o BloodCountEntries(parsed) \o SteroidEntries(parsed)
    \o RedFlagEntries(parsed)

RECURSIVE SumPoints(_)
SumPoints(entries) ==
    IF entries = <<>> THEN 0 ELSE Head(entries).pts + SumPoints(Tail(entries))

\* the cap left out: the sum of the points is the score
ConservativeCap_None(score) == score

\* if (score > 20) score = 20
ConservativeCap(score) == IF score > 20 THEN 20 ELSE score

RuleLabel(score) ==
    IF score >= 10 THEN "High" ELSE IF score >= 4 THEN "Medium" ELSE "Low"

computeRuleScore(parsed) ==
    LET breakdown == Breakdown(parsed)
        score == ConservativeCap(SumPoints(breakdown))
    IN  [rule_score |-> score, rule_label |-> RuleLabel(score), breakdown |-> breakdown]

\* the records computeRuleScore is applied to
EmptyLabs ==
    [wbc |-> NULL, lactate |-> NULL, cr |-> NULL, hb |-> NULL, platelets |-> NULL,
     troponin |-> NULL]

\* computeRuleScore({}): no field set
EmptyRecord ==
    [age |-> NULL, procedureCodes |-> <<>>, tempC |-> NULL, hr |-> NULL, rr |-> NULL,
     spo2 |-> NULL, bp |-> NULL, woundPhrases |-> <<>>, drains |-> <<>>,
     symptoms |-> <<>>, meds |-> <<>>, labs |-> EmptyLabs, notes |-> "",
     comorbidities |-> <<>>]

\* a record on which every scoring factor fires
AllFactorsRecord ==
    [age |-> Some(90), procedureCodes |-> <<"appendectomy", "CABG">>,
     tempC |-> Some(395), hr |-> Some(135), rr |-> Some(32), spo2 |-> Some(85),
     bp |-> Some([sys |-> Some(185), dia |-> Some(115)]),
     woundPhrases |-> << [negated |-> TRUE], [negated |-> FALSE] >>,
     drains |-> << [ml |-> Some(250)] >>,
     symptoms |-> << "chest pain", "bleeding", "oliguria", "confusion", "severe pain",
                     "palpitation" >>,
     meds |-> <<"warfarin", "steroid">>,
     labs |-> [wbc |-> Some(160), lactate |-> Some(45), cr |-> Some(25), hb |-> Some(65),
               platelets |-> Some(400), troponin |-> Some(12)],
     notes |-> "transfer to icu",
     comorbidities |-> <<"diabetes", "htn", "copd">>]

\* the values a field of a record is changed to
FieldValues ==
    [age |-> {NULL, Some(0), Some(64), Some(65), Some(75), Some(85)},
     procedureCodes |-> {<<>>, <<"appendectomy">>, <<"CABG">>},
     tempC |-> {NULL, Some(370), Some(380), Some(390)},
     hr |-> {NULL, Some(45), Some(90), Some(110), Some(130)},
     rr |-> {NULL, Some(22), Some(24), Some(30)},
     spo2 |-> {NULL, Some(89), Some(93), Some(98)},
     bp |-> {NULL, Some([sys |-> NULL, dia |-> Some(120)]),
             Some([sys |-> Some(80), dia |-> NULL]),
             Some([sys |-> Some(160), dia |-> Some(110)]),
             Some([sys |-> Some(120), dia |-> Some(80)])},
     woundPhrases |-> {<<>>, << [negated |-> TRUE] >>, << [negated |-> FALSE] >>},
     drains |-> {<<>>, << [ml |-> NULL] >>, << [ml |-> Some(199)] >>, << [ml |-> Some(200)] >>},
     symptoms |-> {<<>>, <<"nausea">>, <<"chest pain">>, <<"sob", "bleeding">>,
                   <<"no urine", "lethargy", "uncontrolled pain">>},
     meds |-> {<<>>, <<"vancomycin">>, <<"aspirin">>, <<"predni", "heparin">>},
     labs |-> {EmptyLabs,
               [EmptyLabs EXCEPT !.wbc = Some(39), !.lactate = Some(20), !.cr = Some(15),
                                 !.hb = Some(89), !.platelets = Some(500)],
               [EmptyLabs EXCEPT !.wbc = Some(110), !.lactate = Some(40), !.cr = Some(20),
                                 !.hb = Some(69), !.platelets = Some(499)],
               [EmptyLabs EXCEPT !.wbc = Some(150), !.troponin = Some(0)]},
     notes |-> {"", "recovering well", "patient unstable", "elevated troponin"},
     comorbidities |-> {<<>>, <<"htn">>, <<"ckd">>, <<"cancer", "diabetes">>}]

FieldNames == DOMAIN EmptyRecord

\* the number of fields in which a record differs from a starting record
Edits(r, base) == Cardinality({f \in FieldNames : r[f] # base[f]})

----------------------------------------------------------------------------
(* alertStore.js *)

Levels == {"Emergency", "Priority", "Normal"}

\* String.prototype.includes on the level strings of the model
LevelIncludes(levelLower, kw) ==
    \/ levelLower = kw
    \/ levelLower = "critical!" /\ kw = "critical"
    \/ levelLower = "very high" /\ kw = "high"

\* normalizeAlert, lines 63-76: the level is kept when valid, and coerced otherwise
NormalizeLevel(level) ==
    LET alertLevel == IF Has(level) /\ Val(level) # "" THEN Val(level) ELSE "Normal"
        levelLower == toLowerCase(alertLevel)
    IN  IF alertLevel \in Levels THEN alertLevel
        ELSE IF LevelIncludes(levelLower, "emergency") \/ LevelIncludes(levelLower, "critical")
             THEN "Emergency"
        ELSE IF LevelIncludes(levelLower, "priority") \/ LevelIncludes(levelLower, "high")
                \/ LevelIncludes(levelLower, "medium")
             THEN "Priority"
        ELSE "Normal"

\* a || b on an optional string: null, undefined and '' are falsy
OrElse(o, d) == IF Has(o) /\ Val(o) # "" THEN Val(o) ELSE d

\* normalizeAlert: fills in every field of the stored shape.  `fresh` is the
\* identifier uuidv4() would return and t the current time.
normalizeAlert(alert, fresh, t) ==
    [ id              |-> IF Has(alert.id) THEN Val(alert.id) ELSE fresh,
      level           |-> NormalizeLevel(alert.level),
      pid             |-> OrElse(alert.pid, "unknown"),
      name            |-> OrElse(alert.name, "Unknown Patient"),
      reason          |-> IF Has(alert.reason) THEN Val(alert.reason) ELSE <<>>,
      score           |-> alert.score,
      source          |-> OrElse(alert.source, "rules"),
      status          |-> OrElse(alert.status, "new"),
      acknowledgedBy  |-> alert.acknowledgedBy,
      acknowledgedAt  |-> alert.acknowledgedAt,
      resolvedBy      |-> alert.resolvedBy,
      resolvedAt      |-> alert.resolvedAt,
      resolutionNotes |-> OrElse(alert.resolutionNotes, ""),
      assignedTo      |-> alert.assignedTo,
      createdAt       |-> IF Has(alert.createdAt) THEN Val(alert.createdAt) ELSE t,
      updatedAt       |-> IF Has(alert.updatedAt) THEN Val(alert.updatedAt) ELSE t,
      timestamp       |-> IF Has(alert.timestamp) THEN Val(alert.timestamp) ELSE t ]

\* persist(): the file after the write; a failed write is caught and logged,
\* and leaves the file as it was
persist(mem, file, writeOk) == IF writeOk THEN Slice(mem, MAX_ALERTS) ELSE file

\* a push that does not trim
PushedList_NoTrim(mem, normalized) == <<normalized>> \o mem

\* a push that makes room in a full store by dropping the newest alert
PushedList_DropsNewest(mem, normalized) ==
    IF Len(mem) >= MAX_ALERTS THEN <<normalized>> \o Tail(mem) ELSE <<normalized>> \o mem

\* pushAlert, lines 110-116: unshift and trim
PushedList(mem, normalized) == Slice(<<normalized>> \o mem, MAX_ALERTS)

\* getRecentForPatient(patientId, limit)
getRecentForPatient(mem, patientId, limit) ==
    IF patientId = "" THEN <<>>
    ELSE LET safeLimit == Min(Max(1, IF limit = 0 THEN 10 ELSE limit), PatientLimitCap)
             SamePatient(a) == toLowerCase(a.pid) = toLowerCase(patientId)
         IN  Slice(SelectSeq(mem, SamePatient), safeLimit)

\* alerts.findIndex(a => a.id === alertId); 0 stands for -1
FindIndex(mem, alertId) ==
    IF \E i \in 1..Len(mem) : mem[i].id = alertId
    THEN CHOOSE i \in 1..Len(mem) :
            mem[i].id = alertId /\ \A j \in 1..(i - 1) : mem[j].id # alertId
    ELSE 0

\* getAlert
getAlert(mem, alertId) ==
    IF FindIndex(mem, alertId) = 0 THEN NULL ELSE Some(mem[FindIndex(mem, alertId)])

\* updateAlert, lines 140-153: { ...alerts[index], ...updates, updatedAt } and
\* the two stamps, which look at the alert as it was before the merge
UpdatedAlert(old, updates, t) ==
    LET merged == [f \in DOMAIN old |->
                     IF f = "updatedAt" THEN t
                     ELSE IF f \in DOMAIN updates THEN updates[f] ELSE old[f]]
        acked == IF "status" \in DOMAIN updates /\ updates.status = "acknowledged"
                    /\ ~Has(old.acknowledgedAt)
                 THEN [merged EXCEPT !.acknowledgedAt = Some(t)] ELSE merged
    IN  IF "status" \in DOMAIN updates /\ updates.status = "resolved"
           /\ ~Has(old.resolvedAt)
        THEN [acked EXCEPT !.resolvedAt = Some(t)] ELSE acked

\* the updates acknowledgeAlert hands to updateAlert
AcknowledgeUpdates(userId, t) ==
    [status |-> "acknowledged", acknowledgedBy |-> Some(userId), acknowledgedAt |-> Some(t)]

\* the updates resolveAlert hands to updateAlert
ResolveUpdates(userId, notes, t) ==
    [status |-> "resolved", resolvedBy |-> Some(userId), resolvedAt |-> Some(t),
     resolutionNotes |-> notes]

\* the updates assignAlert hands to updateAlert
AssignUpdates(userId) ==
    [assignedTo |-> Some(userId), status |-> "in_progress"]

\* the fields of a stored alert that may hold null
NullableFields ==
    {"score", "acknowledgedBy", "acknowledgedAt", "resolvedBy", "resolvedAt", "assignedTo"}

\* a JSON.stringify that writes the two stamps of the lifecycle as null
StringifyAlert_StampsAsNull(alert) ==
    [f \in DOMAIN alert |->
        IF f \in {"acknowledgedAt", "resolvedAt"} THEN <<"null">>
        ELSE IF f \in NullableFields
        THEN IF Has(alert[f]) THEN <<"value", Val(alert[f])>> ELSE <<"null">>
        ELSE <<"value", alert[f]>>]

\* JSON.stringify of one alert: null is written as the token null, every
\* other value (a string or a number) as itself
StringifyAlert(alert) ==
    [f \in DOMAIN alert |->
        IF f \in NullableFields
        THEN IF Has(alert[f]) THEN <<"value", Val(alert[f])>> ELSE <<"null">>
        ELSE <<"value", alert[f]>>]

\* JSON.stringify(toWrite, null, 2)
JSONstringify(list) == [i \in 1..Len(list) |-> StringifyAlert(list[i])]

\* JSON.parse of one alert
ParseAlert(text) ==
    [f \in DOMAIN text |->
        IF f \in NullableFields
        THEN IF text[f][1] = "null" THEN NULL ELSE Some(text[f][2])
        ELSE text[f][2]]

\* JSON.parse(raw)
JSONparse(raw) == [i \in 1..Len(raw) |-> ParseAlert(raw[i])]

\* the conditions the store file can be found in at startup
FileConditions == {"ok", "missing", "unreadable", "corrupt", "notlist"}

\* a startup load that takes the file's last good content when the file
\* cannot be read
StartupLoad_ReadsThroughDamage(file, cond) ==
    IF cond \in {"ok", "unreadable"} THEN Slice(JSONparse(JSONstringify(file)), MAX_ALERTS)
    ELSE <<>>

\* the load at startup (lines 26-38), `file` being the list last written:
\* a missing file, a read or a parse that throws, and a parsed value that is
\* not an array all leave `alerts` empty
StartupLoad(file, cond) ==
    IF cond = "ok" THEN Slice(JSONparse(JSONstringify(file)), MAX_ALERTS)
    ELSE <<>>

----------------------------------------------------------------------------
(* alertEngine.js: the pure parts *)

\* a vitals object with no field set ({})
EmptyVitals == [tempC |-> NULL, spo2 |-> NULL, sys |-> NULL, hr |-> NULL]

\* vitals || ruleResult.vitals || llmParsed.vitals || {}  (line 242)
SelectVitals(vitals, ruleVitals, llmVitals) ==
    IF Has(vitals) THEN Val(vitals)
    ELSE IF Has(ruleVitals) THEN Val(ruleVitals)
    ELSE IF Has(llmVitals) THEN Val(llmVitals)
    ELSE EmptyVitals

\* message ? String(message).trim() : ''  -- a message is a sequence of words,
\* and a word of blanks is dropped by trim
Trim(message) == SelectSeq(message, LAMBDA w : w # " ")

\* /uncontrolled bleeding|severe bleeding|active bleeding/i
BleedingMatch(message) ==
    \E i \in 1..(Len(message) - 1) :
        /\ toLowerCase(message[i]) \in {"uncontrolled", "severe", "active"}
        /\ toLowerCase(message[i + 1]) = "bleeding"

\* checkImmediateRules with the fever rule firing from 39.0 C, the scorer's
\* threshold, instead of 38.5 C
checkImmediateRules_FeverAt39(message, vitals) ==
    IF Has(vitals.tempC) /\ Val(vitals.tempC) >= 390 THEN Some("High fever >=38.5C")
    ELSE IF Has(vitals.spo2) /\ Val(vitals.spo2) < 90 THEN Some("Critical oxygen saturation <90%")
    ELSE IF Has(vitals.sys) /\ Val(vitals.sys) < 90 THEN Some("Hypotension: SBP <90 mmHg")
    ELSE IF Has(vitals.hr) /\ (Val(vitals.hr) > 140 \/ Val(vitals.hr) < 40)
         THEN Some("Critical heart rate")
    ELSE IF message # <<>> /\ BleedingMatch(message) THEN Some("Active bleeding reported")
    ELSE NULL

\* checkImmediateRules: the reason of the first rule that fires, or null.
\* Temperatures are in tenths of a degree.
checkImmediateRules(message, vitals) ==
    IF Has(vitals.tempC) /\ Val(vitals.tempC) >= 385 THEN Some("High fever >=38.5C")
    ELSE IF Has(vitals.spo2) /\ Val(vitals.spo2) < 90 THEN Some("Critical oxygen saturation <90%")
    ELSE IF Has(vitals.sys) /\ Val(vitals.sys) < 90 THEN Some("Hypotension: SBP <90 mmHg")
    ELSE IF Has(vitals.hr) /\ (Val(vitals.hr) > 140 \/ Val(vitals.hr) < 40)
         THEN Some("Critical heart rate")
    ELSE IF message # <<>> /\ BleedingMatch(message) THEN Some("Active bleeding reported")
    ELSE NULL

\* what callGroq hands back: it throws (missing configuration, network error,
\* the 30 s timeout), or returns a text.  A text is JSON with a label and a
\* reason (each possibly missing), or words that JSON.parse rejects.
LLMResponses ==
    {[kind |-> "throw", label |-> NULL, reason |-> NULL, words |-> <<>>]}
    \cup {[kind |-> "json", label |-> l, reason |-> r, words |-> <<>>] :
            l \in {NULL, Some("EMERGENCY"), Some("Priority"), Some("N")},
            r \in {NULL, Some("justification")}}
    \cup {[kind |-> "text", label |-> NULL, reason |-> NULL, words |-> w] :
            w \in {<<>>, <<"not", "json">>, <<"an", "EMERGENCY">>, <<"Priority">>}}

\* label.toLowerCase().startsWith(c) on the labels of the model
StartsWith(label, c) ==
    \/ c = "e" /\ toLowerCase(label) \in {"emergency", "e"}
    \/ c = "p" /\ toLowerCase(label) \in {"priority", "p"}

\* lower.includes(word) on a text of words
TextIncludes(words, word) == \E i \in 1..Len(words) : toLowerCase(words[i]) = word

\* classifyMessageLLM handing the error's text back as the reason when
\* callGroq throws
classifyMessageLLM_ErrorAsReason(message, resp) ==
    IF message = <<>> THEN [label |-> "Normal", reason |-> <<>>]
    ELSE IF resp.kind = "throw" THEN [label |-> "Normal", reason |-> <<"Groq request failed">>]
    ELSE IF resp.kind = "json" THEN
        LET label == IF Has(resp.label) THEN Val(resp.label) ELSE "Normal"
            reason == IF Has(resp.reason) THEN <<Val(resp.reason)>> ELSE <<>>
        IN  [label |-> IF StartsWith(label, "e") THEN "Emergency"
                       ELSE IF StartsWith(label, "p") THEN "Priority" ELSE "Normal",
             reason |-> IF reason # <<>> THEN reason ELSE <<"LLM classification">>]
    ELSE IF TextIncludes(resp.words, "emergency")
         THEN [label |-> "Emergency", reason |-> Slice(resp.words, ReasonSliceLen)]
    ELSE IF TextIncludes(resp.words, "priority")
         THEN [label |-> "Priority", reason |-> Slice(resp.words, ReasonSliceLen)]
    ELSE [label |-> "Normal", reason |-> Slice(resp.words, ReasonSliceLen)]

\* classifyMessageLLM treating a text that is not JSON like a failed call
classifyMessageLLM_TextIsFailure(message, resp) ==
    IF message = <<>> THEN [label |-> "Normal", reason |-> <<>>]
    ELSE IF resp.kind = "throw" THEN [label |-> "Normal", reason |-> <<>>]
    ELSE IF resp.kind = "json" THEN
        LET label == IF Has(resp.label) THEN Val(resp.label) ELSE "Normal"
            reason == IF Has(resp.reason) THEN <<Val(resp.reason)>> ELSE <<>>
        IN  [label |-> IF StartsWith(label, "e") THEN "Emergency"
                       ELSE IF StartsWith(label, "p") THEN "Priority" ELSE "Normal",
             reason |-> IF reason # <<>> THEN reason ELSE <<"LLM classification">>]
    ELSE [label |-> "Normal", reason |-> <<>>]

\* classifyMessageLLM(message), given what callGroq does: {label, reason},
\* the reason a sequence of words ('' is <<>>)
classifyMessageLLM(message, resp) ==
    IF message = <<>> THEN [label |-> "Normal", reason |-> <<>>]
    ELSE IF resp.kind = "throw" THEN [label |-> "Normal", reason |-> <<>>]
    ELSE IF resp.kind = "json" THEN
        LET label == IF Has(resp.label) THEN Val(resp.label) ELSE "Normal"
            reason == IF Has(resp.reason) THEN <<Val(resp.reason)>> ELSE <<>>
        IN  [label |-> IF StartsWith(label, "e") THEN "Emergency"
                       ELSE IF StartsWith(label, "p") THEN "Priority" ELSE "Normal",
             reason |-> IF reason # <<>> THEN reason ELSE <<"LLM classification">>]
    ELSE IF TextIncludes(resp.words, "emergency")
         THEN [label |-> "Emergency", reason |-> Slice(resp.words, ReasonSliceLen)]
    ELSE IF TextIncludes(resp.words, "priority")
         THEN [label |-> "Priority", reason |-> Slice(resp.words, ReasonSliceLen)]
    ELSE [label |-> "Normal", reason |-> Slice(resp.words, ReasonSliceLen)]

\* isWithinCooldown without the level test: any recent alert of the patient
\* starts the cooldown
isWithinCooldown_AnyLevel(mem, patientId, level, t, lookupOk) ==
    /\ patientId # ""
    /\ lookupOk
    /\ LET recentAlerts == getRecentForPatient(mem, patientId, CooldownLookback)
       IN  \E i \in 1..Len(recentAlerts) :
             /\ t - recentAlerts[i].timestamp < COOLDOWN_MS
             /\ t - recentAlerts[i].timestamp >= 0

\* isWithinCooldown looking at every alert of the patient, not the 20 most
\* recent
isWithinCooldown_NoLookbackLimit(mem, patientId, level, t, lookupOk) ==
    /\ patientId # ""
    /\ lookupOk
    /\ LET recentAlerts == getRecentForPatient(mem, patientId, PatientLimitCap)
       IN  \E i \in 1..Len(recentAlerts) :
             /\ recentAlerts[i].level = level
             /\ t - recentAlerts[i].timestamp < COOLDOWN_MS
             /\ t - recentAlerts[i].timestamp >= 0

\* isWithinCooldown with a window that still holds at exactly 5 minutes
isWithinCooldown_WindowInclusive(mem, patientId, level, t, lookupOk) ==
    /\ patientId # ""
    /\ lookupOk
    /\ LET recentAlerts == getRecentForPatient(mem, patientId, CooldownLookback)
       IN  \E i \in 1..Len(recentAlerts) :
             /\ recentAlerts[i].level = level
             /\ t - recentAlerts[i].timestamp <= COOLDOWN_MS
             /\ t - recentAlerts[i].timestamp >= 0

\* isWithinCooldown(patientId, level) at time t; a lookup that throws is
\* caught and answers false
isWithinCooldown(mem, patientId, level, t, lookupOk) ==
    /\ patientId # ""
    /\ lookupOk
    /\ LET recentAlerts == getRecentForPatient(mem, patientId, CooldownLookback)
       IN  \E i \in 1..Len(recentAlerts) :
             /\ recentAlerts[i].level = level
             /\ t - recentAlerts[i].timestamp < COOLDOWN_MS
             /\ t - recentAlerts[i].timestamp >= 0

\* a score-based step that checks the cooldown in the Normal branch too
ScoredCooldown_EveryLevel(mem, patientId, level, t, lookupOk) ==
    isWithinCooldown(mem, patientId, level, t, lookupOk)

\* the cooldown checks of the score-based step (lines 301, 312, 323): the
\* Emergency branch and the two Priority branches call isWithinCooldown, the
\* Normal branch (328-332) does not
ScoredCooldown(mem, patientId, level, t, lookupOk) ==
    level # "Normal" /\ isWithinCooldown(mem, patientId, level, t, lookupOk)

\* alertStore.getRecentForPatient(patientId, 1).find(a => a.level === level)
ExistingAlert(mem, patientId, level) ==
    LET newest == getRecentForPatient(mem, patientId, 1)
    IN  IF newest # <<>> /\ newest[1].level = level THEN Some(newest[1]) ELSE NULL

\* normalizedRuleResult.rule_score || 0
RuleScoreOf(ruleScore) == IF Has(ruleScore) THEN Val(ruleScore) ELSE 0

\* the level table with 4..9 resolving to Normal
ScoreLevel_MediumIsNormal(ruleScore) ==
    IF ruleScore >= 16 THEN "Emergency"
    ELSE IF ruleScore >= 10 THEN "Priority"
    ELSE "Normal"

\* the level table with Priority starting above 4
ScoreLevel_PriorityAboveFour(ruleScore) ==
    IF ruleScore >= 16 THEN "Emergency"
    ELSE IF ruleScore >= 10 THEN "Priority"
    ELSE IF ruleScore > 4 THEN "Priority"
    ELSE "Normal"

\* lines 295-332: the level a rule score resolves to
ScoreLevel(ruleScore) ==
    IF ruleScore >= 16 THEN "Emergency"
    ELSE IF ruleScore >= 10 THEN "Priority"
    ELSE IF ruleScore >= 4 THEN "Priority"
    ELSE "Normal"

\* lines 287-330: the reason built from the top two breakdown entries, or
\* from the score when the breakdown is empty
ScoreReason(ruleScore, breakdown) ==
    LET topFactors == Slice(breakdown, 2)
    IN  IF ruleScore >= 16 THEN
            IF topFactors # <<>> THEN <<"Critical risk:">> \o topFactors
            ELSE <<"Critical risk score", ToString(ruleScore)>>
        ELSE IF ruleScore >= 10 THEN
            IF topFactors # <<>> THEN <<"High risk:">> \o topFactors
            ELSE <<"High risk score", ToString(ruleScore)>>
        ELSE IF ruleScore >= 4 THEN
            IF topFactors # <<>> THEN <<"Moderate risk:">> \o topFactors
            ELSE <<"Medium risk score", ToString(ruleScore)>>
        ELSE IF topFactors # <<>> THEN <<"Low risk:">> \o topFactors
             ELSE <<"Low risk score", ToString(ruleScore)>>

\* the alert object handed to pushAlert (lines 254-262 and 353-361)
NewAlert(level, patientId, patientName, reason, score, source, timestamp) ==
    [ id |-> NULL, level |-> Some(level), pid |-> Some(patientId),
      name |-> Some(patientName), reason |-> Some(reason), score |-> score,
      source |-> Some(source), timestamp |-> Some(timestamp),
      status |-> NULL, acknowledgedBy |-> NULL, acknowledgedAt |-> NULL,
      resolvedBy |-> NULL, resolvedAt |-> NULL, resolutionNotes |-> NULL,
      assignedTo |-> NULL, createdAt |-> NULL, updatedAt |-> NULL ]

\* fusion in which an Emergency label of the classifier raises the level
FusedAlertFields_LabelWins(level, reason, llmClassification) ==
    IF llmClassification.reason # <<>>
    THEN [level |-> IF llmClassification.label = "Emergency" THEN "Emergency" ELSE level,
          reason |-> reason \o <<"|">> \o llmClassification.reason,
          source |-> "fusion"]
    ELSE [level |-> level, reason |-> reason, source |-> "rules"]

\* fusion that marks the source as fusion whenever the classifier was asked
FusedAlertFields_AlwaysFusion(level, reason, llmClassification) ==
    IF llmClassification.reason # <<>>
    THEN [level |-> level,
          reason |-> reason \o <<"|">> \o llmClassification.reason,
          source |-> "fusion"]
    ELSE [level |-> level, reason |-> reason, source |-> "fusion"]

\* lines 342-346: the classifier's reason is appended and the source becomes
\* fusion; the level is not touched
FusedAlertFields(level, reason, llmClassification) ==
    IF llmClassification.reason # <<>>
    THEN [level |-> level, reason |-> reason \o <<"|">> \o llmClassification.reason,
          source |-> "fusion"]
    ELSE [level |-> level, reason |-> reason, source |-> "rules"]

\* evaluateAndEmitAlert without its outer try/catch
OuterCatch_Rethrow(outcome) == outcome

\* the try/catch around the whole of evaluateAndEmitAlert (lines 199, 378-382):
\* an exception thrown anywhere inside becomes a null return
OuterCatch(outcome) == IF outcome = "threw" THEN "null" ELSE outcome

\* sanitizeMessage: an e-mail address, a phone number and a social security
\* number are each replaced by a tag; the other words are kept
sanitizeMessage(message) ==
    [i \in 1..Len(message) |->
        CASE message[i] = "ann@mail.org" -> "[EMAIL]"
          [] message[i] = "555-123-4567" -> "[PHONE]"
          [] message[i] = "123-45-6789" -> "[SSN]"
          [] OTHER -> message[i]]

----------------------------------------------------------------------------
(* What the last completed operation was: the facts of its inputs that the *)
(* properties below speak of, and its result.                              *)

\* the safety-override condition on a call's inputs: temperature >= 38.5 C,
\* SpO2 < 90, systolic pressure < 90, heart rate > 140 or < 40, or a message
\* with an active-bleeding phrase
SafetyCondition(v, message) ==
    \/ Has(v.tempC) /\ ~(Val(v.tempC) < 385)
    \/ Has(v.spo2) /\ Val(v.spo2) <= 89
    \/ Has(v.sys) /\ Val(v.sys) <= 89
    \/ Has(v.hr) /\ Val(v.hr) \notin 40..140
    \/ \E i \in 1..(Len(message) - 1) :
          /\ toLowerCase(message[i + 1]) = "bleeding"
          /\ toLowerCase(message[i]) \in {"active", "severe", "uncontrolled"}

\* an alert of this level for this patient (identity is case-insensitive)
\* lies in the cooldown window that ends at time t
InWindow(mem, patientId, level, t) ==
    \E i \in 1..Len(mem) :
        /\ toLowerCase(mem[i].pid) = toLowerCase(patientId)
        /\ mem[i].level = level
        /\ mem[i].timestamp <= t
        /\ mem[i].timestamp > t - COOLDOWN_MS

NoLast ==
    [ op |-> "none", outcome |-> "none", alert |-> NULL, pushed |-> FALSE,
      pid |-> "", safety |-> FALSE, score |-> NULL, msg |-> FALSE,
      emInWindow |-> FALSE, resolved |-> "none", llm |-> "none",
      llmLabel |-> "none", llmReason |-> <<>>, llmText |-> <<>>,
      emit |-> "none", raised |-> FALSE,
      callTime |-> 0, final |-> FALSE ]

----------------------------------------------------------------------------
(* alertEngine.js and alertStore.js: the operations *)

\* the push and the emit with no try/catch around io.emit: an emit that
\* throws ends in the outer catch, after the alert was stored
PushAndEmit_EmitUncaught(alert, io, faults, facts) ==
    IF "push" \in faults
    THEN /\ last' = [facts EXCEPT !.outcome = OuterCatch("threw"), !.raised = TRUE]
         /\ UNCHANGED <<alerts, disk, nextId, emitted>>
    ELSE /\ LET saved == normalizeAlert(alert, nextId, now)
            IN  /\ alerts' = PushedList(alerts, saved)
                /\ disk' = persist(alerts', disk, "write" \notin faults)
                /\ emitted' = IF io = "ok" THEN Some(saved) ELSE emitted
                /\ last' = [facts EXCEPT
                              !.outcome = IF io = "throws" THEN OuterCatch("threw")
                                          ELSE OuterCatch("saved"),
                              !.alert = IF io = "throws" THEN NULL ELSE Some(saved),
                              !.pushed = TRUE, !.emit = io]
         /\ nextId' = nextId + 1

\* the emit placed before the push: the alert goes to the publisher also
\* when pushAlert then throws
PushAndEmit_EmitBeforePush(alert, io, faults, facts) ==
    LET saved == normalizeAlert(alert, nextId, now)
    IN  IF "push" \in faults
        THEN /\ last' = [facts EXCEPT !.outcome = OuterCatch("threw"), !.raised = TRUE]
             /\ emitted' = IF io = "ok" THEN Some(saved) ELSE emitted
             /\ UNCHANGED <<alerts, disk, nextId>>
        ELSE /\ alerts' = PushedList(alerts, saved)
             /\ disk' = persist(alerts', disk, "write" \notin faults)
             /\ emitted' = IF io = "ok" THEN Some(saved) ELSE emitted
             /\ last' = [facts EXCEPT !.outcome = OuterCatch("saved"),
                                      !.alert = Some(saved), !.pushed = TRUE,
                                      !.emit = io]
             /\ nextId' = nextId + 1

\* alertStore.pushAlert(alert), then io.emit('alert:new', saved) when a
\* Socket.IO instance is there, then `return saved`.  A push that throws, and
\* anything else thrown inside the call, ends in the outer catch.
PushAndEmit(alert, io, faults, facts) ==
    IF "push" \in faults
    THEN /\ last' = [facts EXCEPT !.outcome = OuterCatch("threw"), !.raised = TRUE]
         /\ UNCHANGED <<alerts, disk, nextId, emitted>>
    ELSE /\ LET saved == normalizeAlert(alert, nextId, now)
            IN  /\ alerts' = PushedList(alerts, saved)
                /\ disk' = persist(alerts', disk, "write" \notin faults)
                /\ emitted' = IF io = "ok" THEN Some(saved) ELSE emitted
                /\ last' = [facts EXCEPT !.outcome = OuterCatch("saved"),
                                         !.alert = Some(saved), !.pushed = TRUE,
                                         !.emit = io]
         /\ nextId' = nextId + 1

\* a cooldown branch that broadcasts the existing alert again
ReturnExisting_Rebroadcast(patientId, level, faults, facts) ==
    /\ last' = [facts EXCEPT
                  !.outcome = IF "existingLookup" \in faults THEN OuterCatch("threw")
                              ELSE IF Has(ExistingAlert(alerts, patientId, level))
                                   THEN OuterCatch("existing") ELSE OuterCatch("null"),
                  !.raised = ("existingLookup" \in faults),
                  !.alert = IF "existingLookup" \in faults THEN NULL
                            ELSE ExistingAlert(alerts, patientId, level)]
    /\ emitted' = IF "existingLookup" \in faults THEN emitted
                  ELSE ExistingAlert(alerts, patientId, level)
    /\ UNCHANGED <<alerts, disk, nextId>>

\* the cooldown branch: `return existing || null`; the lookup may throw
ReturnExisting(patientId, level, faults, facts) ==
    /\ last' = [facts EXCEPT
                  !.outcome = IF "existingLookup" \in faults THEN OuterCatch("threw")
                              ELSE IF Has(ExistingAlert(alerts, patientId, level))
                                   THEN OuterCatch("existing") ELSE OuterCatch("null"),
                  !.raised = ("existingLookup" \in faults),
                  !.alert = IF "existingLookup" \in faults THEN NULL
                            ELSE ExistingAlert(alerts, patientId, level)]
    /\ UNCHANGED <<alerts, disk, nextId, emitted>>

\* evaluateAndEmitAlert up to its return or to `await classifyMessageLLM`.
\* patientId is '' when patient or patient.id is missing; timestamp is null
\* when the caller gives none.
Evaluate(patientId, patientName, ruleScore, breakdown, vitals, ruleVitals, llmVitals, message, timestamp, io, faults, final) ==
    LET name == OrElse(patientName, "Unknown Patient")
        normalizedMessage == Trim(message)
        normalizedTimestamp == IF Has(timestamp) THEN Val(timestamp) ELSE now
        vitalsForRules == SelectVitals(vitals, ruleVitals, llmVitals)
        immediateRule == checkImmediateRules(normalizedMessage, vitalsForRules)
        score == RuleScoreOf(ruleScore)
        level == ScoreLevel(score)
        reason == ScoreReason(score, breakdown)
        lookupOk == "cooldownLookup" \notin faults
        facts == [ NoLast EXCEPT
                     !.op = "evaluate", !.pid = patientId,
                     !.safety = SafetyCondition(vitalsForRules, message),
                     !.score = ruleScore, !.msg = (normalizedMessage # <<>>),
                     !.emInWindow = InWindow(alerts, patientId, "Emergency", now),
                     !.resolved = IF Has(immediateRule) THEN "Emergency" ELSE level,
                     !.callTime = now, !.final = final ]
    IN  /\ UNCHANGED <<now, scoreVars>>
        /\ IF patientId = ""
           THEN /\ last' = [facts EXCEPT !.outcome = OuterCatch("null")]
                /\ UNCHANGED <<alerts, disk, nextId, emitted, pending>>
           ELSE IF Has(immediateRule)
           THEN /\ UNCHANGED pending
                /\ IF isWithinCooldown(alerts, patientId, "Emergency", now, lookupOk)
                   THEN ReturnExisting(patientId, "Emergency", faults, facts)
                   ELSE PushAndEmit(
                          NewAlert("Emergency", patientId, name, <<Val(immediateRule)>>,
                                   IF score = 0 THEN NULL ELSE Some(score),
                                   "rules", normalizedTimestamp),
                          io, faults, facts)
           ELSE IF ScoredCooldown(alerts, patientId, level, now, lookupOk)
           THEN /\ UNCHANGED pending
                /\ ReturnExisting(patientId, level, faults, facts)
           ELSE IF normalizedMessage # <<>> /\ level # "Emergency"
           THEN /\ Len(pending) < MaxPending
                /\ pending' = Append(pending,
                       [ patientId |-> patientId, patientName |-> name, level |-> level,
                         reason |-> reason, ruleScore |-> score,
                         timestamp |-> normalizedTimestamp,
                         sanitized |-> sanitizeMessage(normalizedMessage),
                         facts |-> facts ])
                /\ last' = [facts EXCEPT !.outcome = "suspended"]
                /\ UNCHANGED <<alerts, disk, nextId, emitted>>
           ELSE /\ UNCHANGED pending
                /\ PushAndEmit(
                     NewAlert(level, patientId, name, reason, Some(score), "rules",
                              normalizedTimestamp),
                     io, faults, facts)

\* the alert a suspended call builds once classifyMessageLLM has settled
ResumedAlert(call, resp) ==
    LET llmClassification == classifyMessageLLM(call.sanitized, resp)
        fused == FusedAlertFields(call.level, call.reason, llmClassification)
    IN  NewAlert(fused.level, call.patientId, call.patientName, fused.reason,
                 Some(call.ruleScore), fused.source, call.timestamp)

\* evaluateAndEmitAlert from the point where classifyMessageLLM settles
\* (lines 339-376)
Resume(i, resp, io, faults) ==
    /\ i \in 1..Len(pending)
    /\ pending' = SubSeq(pending, 1, i - 1) \o SubSeq(pending, i + 1, Len(pending))
    /\ PushAndEmit(ResumedAlert(pending[i], resp), io, faults,
                   [pending[i].facts EXCEPT
                      !.op = "resume", !.llm = resp.kind,
                      !.llmLabel = classifyMessageLLM(pending[i].sanitized, resp).label,
                      !.llmReason = classifyMessageLLM(pending[i].sanitized, resp).reason,
                      !.llmText = resp.words])
    /\ UNCHANGED <<now, scoreVars>>

\* time passes
Tick ==
    /\ now < MaxTicks * TickMs
    /\ now' = now + TickMs
    /\ UNCHANGED <<alerts, disk, nextId, pending, emitted, last, scoreVars>>

\* updateAlert(alertId, updates): null when the id is unknown; otherwise the
\* merged alert replaces the old one in place and the list is persisted
UpdateAlert(op, alertId, updates, writeOk) ==
    LET index == FindIndex(alerts, alertId)
    IN  /\ IF index = 0
           THEN /\ last' = [NoLast EXCEPT !.op = op, !.outcome = "null"]
                /\ UNCHANGED <<alerts, disk>>
           ELSE LET updatedAlert == UpdatedAlert(alerts[index], updates, now)
                IN  /\ alerts' = [alerts EXCEPT ![index] = updatedAlert]
                    /\ disk' = persist(alerts', disk, writeOk)
                    /\ last' = [NoLast EXCEPT !.op = op, !.outcome = "updated",
                                              !.alert = Some(updatedAlert)]
        /\ UNCHANGED <<now, nextId, pending, emitted, scoreVars>>

\* POST /:alertId/acknowledge with a userId -> alertStore.acknowledgeAlert
Acknowledge(alertId, userId, writeOk) ==
    UpdateAlert("acknowledge", alertId, AcknowledgeUpdates(userId, now), writeOk)

\* POST /:alertId/resolve with a userId -> alertStore.resolveAlert
Resolve(alertId, userId, notes, writeOk) ==
    UpdateAlert("resolve", alertId, ResolveUpdates(userId, notes, now), writeOk)

\* POST /:alertId/assign with a userId -> alertStore.assignAlert
Assign(alertId, userId, writeOk) ==
    UpdateAlert("assign", alertId, AssignUpdates(userId), writeOk)

\* DELETE /alerts -> alertStore.clear()
Clear(writeOk) ==
    /\ alerts' = <<>>
    /\ disk' = persist(alerts', disk, writeOk)
    /\ last' = [NoLast EXCEPT !.op = "clear", !.outcome = "cleared"]
    /\ UNCHANGED <<now, nextId, pending, emitted, scoreVars>>

\* the process stops and starts again: the module state is rebuilt from the
\* file, and the calls in flight are gone.  `disk` is the list a readable
\* file would load as: a file that is missing, is not JSON or holds no list
\* loads as the empty list from then on, a file that cannot be read keeps
\* its content, until the next write replaces it.
Restart(cond) ==
    /\ alerts' = StartupLoad(disk, cond)
    /\ disk' = IF cond \in {"ok", "unreadable"} THEN disk ELSE <<>>
    /\ pending' = <<>>
    /\ emitted' = NULL
    /\ last' = [NoLast EXCEPT !.op = "restart",
                              !.outcome = IF cond = "ok" THEN "loaded" ELSE cond]
    /\ UNCHANGED <<now, nextId, scoreVars>>

----------------------------------------------------------------------------
(* The inputs the operations are driven with *)

\* ruleResult.rule_score: missing, and the scores on both sides of each
\* boundary of the level table
Scores == {NULL} \cup {Some(n) : n \in {0, 3, 4, 9, 10, 15, 16, 20}}

Vital(t, o, s, h) == [tempC |-> t, spo2 |-> o, sys |-> s, hr |-> h]

\* vitals objects: each threshold from both sides, one field at a time, and
\* a record of normal values
VitalsObjects ==
    { EmptyVitals,
      Vital(Some(370), Some(96), Some(120), Some(80)),
      Vital(Some(385), NULL, NULL, NULL), Vital(Some(384), NULL, NULL, NULL),
      Vital(NULL, Some(89), NULL, NULL), Vital(NULL, Some(90), NULL, NULL),
      Vital(NULL, NULL, Some(89), NULL), Vital(NULL, NULL, Some(90), NULL),
      Vital(NULL, NULL, NULL, Some(141)), Vital(NULL, NULL, NULL, Some(140)),
      Vital(NULL, NULL, NULL, Some(39)), Vital(NULL, NULL, NULL, Some(40)) }

\* <<vitals, ruleResult.vitals, llmParsed.vitals>> as a caller may give them
VitalsSources ==
    {<<Some(v), NULL, NULL>> : v \in VitalsObjects}
    \cup { <<NULL, NULL, NULL>>,
           <<NULL, Some(Vital(Some(392), NULL, NULL, NULL)), NULL>>,
           <<NULL, NULL, Some(Vital(NULL, Some(88), NULL, NULL))>>,
           <<Some(EmptyVitals), Some(Vital(Some(392), NULL, NULL, NULL)), NULL>> }

Messages == {<<>>, <<" ">>, <<"wound", "hurts">>, <<"Active", "Bleeding">>}

Breakdowns == {<<>>, <<"Fever", "High WBC", "Age">>}

----------------------------------------------------------------------------
(* Spec: the fusion engine.  Routine calls (a score of each level for two  *)
(* patients) and the clock build up the store; then one call is made with  *)
(* inputs drawn from the whole table of scores, vitals and messages, and   *)
(* the classifier answers it in every way it can.                          *)

Init ==
    /\ alerts = <<>>
    /\ disk = <<>>
    /\ now = 0
    /\ nextId = 1
    /\ pending = <<>>
    /\ emitted = NULL
    /\ last = NoLast
    /\ rec = EmptyRecord
    /\ result = NULL

CallInput(patientId, ruleScore, breakdown, vs, message, timestamp, io) ==
    [ patientId |-> patientId, ruleScore |-> ruleScore, breakdown |-> breakdown,
      vs |-> vs, message |-> message, timestamp |-> timestamp, io |-> io ]

NoVitals == <<NULL, NULL, NULL>>

\* the inputs of the call under observation: every vitals source with every
\* score, every score with every message, every vitals source with a
\* message, and a breakdown, a caller's timestamp and a missing patient id
TableInputs ==
    {CallInput("P1", sc, <<>>, vs, <<>>, NULL, "ok") :
        sc \in Scores, vs \in VitalsSources}
    \cup {CallInput("P1", sc, bd, NoVitals, m, NULL, "ok") :
        sc \in Scores, m \in Messages, bd \in Breakdowns}
    \cup {CallInput("P1", Some(12), <<>>, vs, m, NULL, io) :
        vs \in VitalsSources, m \in {<<"wound", "hurts">>, <<"Active", "Bleeding">>},
        io \in {"none", "throws"}}
    \cup {CallInput("P1", sc, <<>>, NoVitals, <<>>, Some(ts), "ok") :
        sc \in {Some(2), Some(12), Some(17)}, ts \in {0 - COOLDOWN_MS, MaxTicks * TickMs}}
    \cup {CallInput("", Some(12), <<>>, vs, <<>>, NULL, "ok") :
        vs \in {NoVitals, <<Some(Vital(Some(390), NULL, NULL, NULL)), NULL, NULL>>}}

\* no call follows the call under observation
Open == ~last.final /\ pending = <<>>

Routine ==
    /\ Open
    /\ nextId <= MaxCreated
    /\ \E patientId \in {"p1", "P2"}, ruleScore \in {Some(2), Some(12), Some(17)} :
         Evaluate(patientId, NULL, ruleScore, <<>>, NULL, NULL, NULL, <<>>, NULL,
                  "ok", {}, FALSE)

Observed ==
    /\ Open
    /\ \E in \in TableInputs :
         Evaluate(in.patientId, NULL, in.ruleScore, in.breakdown, in.vs[1], in.vs[2],
                  in.vs[3], in.message, in.timestamp, in.io, {}, TRUE)

Settle ==
    \E i \in 1..MaxPending, resp \in LLMResponses, io \in {"ok", "throws"} :
        Resume(i, resp, io, {})

Next == Routine \/ Observed \/ Settle \/ Tick

Spec == Init /\ [][Next]_vars

----------------------------------------------------------------------------
(* SpecRace: concurrent fusion calls for one patient, each stamped with the *)
(* time it is made; a call with a message suspends on the classifier       *)

RaceCall ==
    /\ nextId <= MaxCreated
    /\ \E ruleScore \in {Some(12), Some(17)}, message \in {<<>>, <<"wound", "hurts">>} :
         Evaluate("P1", NULL, ruleScore, <<>>, NULL, NULL, NULL, message, NULL,
                  "ok", {}, FALSE)

RaceSettle ==
    \E i \in 1..MaxPending, resp \in LLMResponses :
        /\ resp.kind \in {"throw", "json"}
        /\ Resume(i, resp, "ok", {})

SpecRace == Init /\ [][RaceCall \/ RaceSettle \/ Tick]_vars

----------------------------------------------------------------------------
(* SpecFaults: fusion calls against a store, a classifier and a publisher  *)
(* that may throw                                                          *)

\* what fails during a call: the broadcast (io) or a store operation
FaultCases ==
    { <<"ok", {}>>, <<"throws", {}>>, <<"ok", {"cooldownLookup"}>>,
      <<"ok", {"existingLookup"}>>, <<"ok", {"push"}>>, <<"ok", {"write"}>> }

FaultyCall ==
    /\ Open
    /\ \E ruleScore \in {Some(2), Some(12)},
          vitals \in {NULL, Some(Vital(Some(390), NULL, NULL, NULL))},
          message \in {<<>>, <<"wound", "hurts">>}, f \in FaultCases :
         Evaluate("P1", NULL, ruleScore, <<>>, vitals, NULL, NULL, message,
                  NULL, f[1], f[2], TRUE)

FaultySettle ==
    \E i \in 1..MaxPending, resp \in LLMResponses, f \in FaultCases :
        /\ resp.kind = "throw" \/ (resp.kind = "json" /\ resp.label = NULL)
        /\ f[2] \subseteq {"push", "write"}
        /\ Resume(i, resp, f[1], f[2])

SpecFaults == Init /\ [][Routine \/ FaultyCall \/ FaultySettle \/ Tick]_vars

----------------------------------------------------------------------------
(* SpecStore: the lifecycle of stored alerts                               *)

Users == {"u1", "u2"}

\* the identifiers handed out so far, and one that is unknown
AlertIds == 1..nextId

Create ==
    /\ nextId <= MaxCreated
    /\ \E ruleScore \in {Some(2), Some(17)} :
         Evaluate("P1", Some("Ann"), ruleScore, <<>>, NULL, NULL, NULL, <<>>, NULL,
                  "ok", {}, FALSE)

Ack == \E alertId \in AlertIds, userId \in Users : Acknowledge(alertId, userId, TRUE)

Res == \E alertId \in AlertIds, userId \in Users : Resolve(alertId, userId, "done", TRUE)

Asg == \E alertId \in AlertIds, userId \in Users : Assign(alertId, userId, TRUE)

Clr == Clear(TRUE)

SpecStore == Init /\ [][Create \/ Ack \/ Res \/ Asg \/ Clr \/ Tick]_vars

----------------------------------------------------------------------------
(* SpecDurable: alerts are pushed, the newest is acknowledged and resolved, *)
(* the store is cleared, and the process restarts, finding the file as it   *)
(* was written or damaged                                                   *)

DurablePush ==
    /\ nextId - 1 <= MaxCreated
    /\ \E ruleScore \in {Some(2), Some(12)} :
         Evaluate("P1", Some("Ann"), ruleScore, <<>>, NULL, NULL, NULL, <<>>, NULL,
                  "ok", {}, FALSE)

\* the newest alert is acknowledged while new and resolved while unresolved
DurableAck ==
    /\ alerts # <<>>
    /\ alerts[1].status = "new"
    /\ Acknowledge(alerts[1].id, "u1", TRUE)

DurableRes ==
    /\ alerts # <<>>
    /\ alerts[1].status # "resolved"
    /\ Resolve(alerts[1].id, "u1", "done", TRUE)

\* an update of an alert the store does not hold
DurableMiss == Assign(nextId, "u2", TRUE)

DurableClr == Clear(TRUE)

Crash == \E cond \in FileConditions : Restart(cond)

SpecDurable ==
    Init /\ [][DurablePush \/ DurableAck \/ DurableRes \/ DurableMiss \/ DurableClr
               \/ Crash \/ Tick]_vars

----------------------------------------------------------------------------
(* SpecFull: the store at its capacity.  It starts one alert short of      *)
(* MAX_ALERTS, filled by earlier pushes for another patient.               *)

\* the store after n pushes, one every TickMs, the last one TickMs ago
FilledStore(n) ==
    [i \in 1..n |->
        normalizeAlert(NewAlert("Normal", "P9", "Zed", <<"Low risk score", "0">>,
                                Some(0), "rules", 0 - i * TickMs),
                       n + 1 - i, 0 - i * TickMs)]

InitFull ==
    /\ alerts = FilledStore(MAX_ALERTS - 1)
    /\ disk = alerts
    /\ now = 0
    /\ nextId = MAX_ALERTS
    /\ pending = <<>>
    /\ emitted = NULL
    /\ last = NoLast
    /\ rec = EmptyRecord
    /\ result = NULL

FullPush ==
    /\ nextId <= MAX_ALERTS + MaxCreated
    /\ Evaluate("P1", Some("Ann"), Some(2), <<>>, NULL, NULL, NULL, <<>>, NULL,
                "ok", {}, FALSE)

\* the newest alert is acknowledged
FullAck ==
    /\ alerts # <<>>
    /\ alerts[1].status = "new"
    /\ Acknowledge(alerts[1].id, "u1", TRUE)

\* the oldest alert is resolved
FullRes ==
    /\ alerts # <<>>
    /\ alerts[Len(alerts)].status # "resolved"
    /\ Resolve(alerts[Len(alerts)].id, "u1", "done", TRUE)

FullClr == Clear(TRUE)

FullReload == Restart("ok")

SpecFull ==
    InitFull /\ [][FullPush \/ FullAck \/ FullRes \/ FullClr \/ FullReload]_vars

----------------------------------------------------------------------------
(* SpecCooldown: the cooldown against a store that holds more than         *)
(* CooldownLookback alerts of one patient.  Earlier calls, all at time 0,  *)
(* left an Emergency alert, a Priority alert and, above them, Normal       *)
(* alerts, so that the Priority alert is the last one the lookback sees.   *)

\* the alert a call with this score and no message stored at time t
StoredByCall(patientId, score, id, t) ==
    normalizeAlert(NewAlert(ScoreLevel(score), patientId, "Unknown Patient",
                            ScoreReason(score, <<>>), Some(score), "rules", t),
                   id, t)

\* newest first: CooldownLookback - 1 Normal alerts, the Priority alert, the
\* Emergency alert
LookbackStore ==
    [i \in 1..(CooldownLookback + 1) |->
        StoredByCall("p1",
                     IF i < CooldownLookback THEN 2
                     ELSE IF i = CooldownLookback THEN 12 ELSE 17,
                     CooldownLookback + 2 - i, 0)]

InitCooldown ==
    /\ alerts = LookbackStore
    /\ disk = alerts
    /\ now = 0
    /\ nextId = CooldownLookback + 2
    /\ pending = <<>>
    /\ emitted = NULL
    /\ last = NoLast
    /\ rec = EmptyRecord
    /\ result = NULL

\* further calls without a message, stamped now or five minutes ahead, with
\* or without a Socket.IO instance
CooldownSeed ==
    /\ Open
    /\ nextId <= CooldownLookback + 1 + MaxCreated
    /\ \E c \in { <<"P1", 2, NULL, "ok">>, <<"P1", 17, NULL, "ok">>,
                   <<"P1", 17, Some(now + COOLDOWN_MS), "ok">>,
                   <<"P2", 12, NULL, "none">> } :
         Evaluate(c[1], NULL, Some(c[2]), <<>>, NULL, NULL, NULL, <<>>, c[3],
                  c[4], {}, FALSE)

\* the call under observation
CooldownCall ==
    /\ Open
    /\ \E patientId \in {"P1", "P2", ""}, ruleScore \in {Some(2), Some(12), Some(17)},
          vitals \in {NULL, Some(Vital(Some(390), NULL, NULL, NULL))},
          message \in {<<>>, <<"wound", "hurts">>} :
         Evaluate(patientId, NULL, ruleScore, <<>>, vitals, NULL, NULL, message, NULL,
                  "ok", {}, TRUE)

CooldownSettle ==
    \E resp \in LLMResponses :
        /\ resp.kind = "throw" \/ (resp.kind = "json" /\ resp.label = NULL)
        /\ Resume(1, resp, "ok", {})

\* lifecycle requests for an alert id the store does not hold
CooldownMiss ==
    /\ Open
    /\ \/ Acknowledge(nextId, "u1", TRUE)
       \/ Resolve(nextId, "u1", "done", TRUE)
       \/ Assign(nextId, "u2", TRUE)

SpecCooldown ==
    InitCooldown /\ [][CooldownSeed \/ CooldownCall \/ CooldownSettle \/ CooldownMiss \/ Tick]_vars

----------------------------------------------------------------------------
(* SpecScore: computeRuleScore applied to measurement records: the empty    *)
(* record, the record on which every factor fires, and the records that     *)
(* differ from one of them in at most MaxEdits fields                       *)

LoadAll ==
    /\ rec = EmptyRecord
    /\ rec' = AllFactorsRecord
    /\ result' = NULL
    /\ UNCHANGED storeVars

Edit ==
    /\ \E f \in FieldNames : \E v \in FieldValues[f] :
         LET r == [rec EXCEPT ![f] = v]
         IN  /\ r # rec
             /\ Edits(r, EmptyRecord) <= MaxEdits \/ Edits(r, AllFactorsRecord) <= MaxEdits
             /\ rec' = r
    /\ result' = NULL
    /\ UNCHANGED storeVars

Score ==
    /\ result = NULL
    /\ result' = Some(computeRuleScore(rec))
    /\ UNCHANGED <<rec, storeVars>>

SpecScore == Init /\ [][LoadAll \/ Edit \/ Score]_vars

----------------------------------------------------------------------------
(* Properties of the fusion engine *)

\* the level table of the score-based step: >= 16 Emergency, 10..15
\* Priority, 4..9 Priority, below 4 Normal
TableLevel(n) ==
    CASE n >= 16 -> "Emergency"
      [] n \in 10..15 -> "Priority"
      [] n \in 4..9 -> "Priority"
      [] n < 4 -> "Normal"

IsCall == last.op \in {"evaluate", "resume"}

\* C1: a fusion call with a patient id whose inputs meet a safety-override
\* condition creates no alert that is not Emergency with source rules,
\* whatever the rule score
C1_OverrideIsEmergency ==
    (IsCall /\ last.pid # "" /\ last.safety /\ last.pushed) =>
        /\ Val(last.alert).level = "Emergency"
        /\ Val(last.alert).source = "rules"
        /\ alerts[1] = Val(last.alert)

\* a fever of 38.5 C with a score that alone gives Normal
C1_Witness ==
    /\ IsCall /\ last.safety /\ last.pushed
    /\ last.score = Some(3)
    /\ Val(last.alert).reason = <<"High fever >=38.5C">>

\* C2: a call whose safety override fires and that finds no Emergency alert
\* of its patient in the cooldown window persists a new Emergency alert, at
\* once (it never waits for the classifier), whatever else the store holds
C2_OnlyCooldownSuppresses ==
    (IsCall /\ last.pid # "" /\ last.safety) =>
        /\ last.op = "evaluate"
        /\ last.outcome # "suspended"
        /\ ~last.emInWindow =>
              /\ last.pushed /\ last.outcome = "saved"
              /\ Val(last.alert).level = "Emergency"
              /\ Val(last.alert).createdAt = last.callTime
              /\ Val(last.alert).id \notin {alerts[i].id : i \in 2..Len(alerts)}
              /\ alerts[1] = Val(last.alert)
              /\ disk = alerts

\* the override persisted an Emergency alert on top of a Priority alert of
\* the same patient that is still in its window
C2_Witness ==
    /\ IsCall /\ last.safety /\ last.pushed
    /\ Len(alerts) = 2
    /\ toLowerCase(alerts[2].pid) = toLowerCase(last.pid)
    /\ alerts[2].level = "Priority"
    /\ alerts[2].timestamp = alerts[1].timestamp

C8_ClassifierFailure ==
    (last.op = "resume" /\ last.llm = "throw") =>
        /\ last.pushed /\ last.outcome = "saved"
        /\ alerts[1] = Val(last.alert)
        /\ Val(last.alert).level = TableLevel(IF Has(last.score) THEN Val(last.score) ELSE 0)
        /\ Val(last.alert).source = "rules"
        /\ \A k \in 1..Len(Val(last.alert).reason) : Val(last.alert).reason[k] # "|"
        /\ Val(last.alert).reason[1] \in
              {"High risk score", "Medium risk score", "Low risk score",
               "High risk:", "Moderate risk:", "Low risk:"}

\* the classifier failed on a call with score 10 and the alert is Priority
C8_Witness ==
    /\ last.op = "resume" /\ last.llm = "throw" /\ last.pushed
    /\ last.score = Some(10)
    /\ Val(last.alert).level = "Priority"
    /\ Val(last.alert).source = "rules"

\* C5: of two fusion calls for the same patient made within 5 minutes of
\* each other that resolve to the same level, exactly one persists an alert:
\* no two stored alerts of one patient and one level were created less than
\* 5 minutes apart
C5_OneAlertPerWindow ==
    \A i, j \in 1..Len(alerts) :
        (i < j /\ toLowerCase(alerts[i].pid) = toLowerCase(alerts[j].pid)
               /\ alerts[i].level = alerts[j].level)
        => alerts[i].createdAt - alerts[j].createdAt >= COOLDOWN_MS

\* C6: of concurrent fusion calls for one patient that resolve to the same
\* level, at most one persists an alert within the cooldown window: no two
\* stored alerts of one patient and one level come from calls made less than
\* 5 minutes apart
C6_AtomicCheckAndInsert ==
    \A i, j \in 1..Len(alerts) :
        (i < j /\ toLowerCase(alerts[i].pid) = toLowerCase(alerts[j].pid)
               /\ alerts[i].level = alerts[j].level)
        => \/ alerts[i].timestamp - alerts[j].timestamp >= COOLDOWN_MS
           \/ alerts[j].timestamp - alerts[i].timestamp >= COOLDOWN_MS

C10_StampedOnce ==
    [][\A i \in 1..Len(alerts) : \A j \in 1..Len(alerts') :
          alerts'[j].id = alerts[i].id =>
            /\ Has(alerts[i].resolvedAt) => alerts'[j].resolvedAt = alerts[i].resolvedAt
            /\ Has(alerts[i].acknowledgedAt) =>
                  alerts'[j].acknowledgedAt = alerts[i].acknowledgedAt]_vars

\* C9: for every measurement record, the one with no field set and the one
\* that fires every factor included, computeRuleScore returns an integer
\* score between 0 and 20
C9_ScoreInRange ==
    Has(result) => Val(result).rule_score \in 0..20

\* every factor fired, the points add up to more than 20, and the score
\* returned is 20
C9_Witness ==
    /\ rec = AllFactorsRecord
    /\ Has(result)
    /\ SumPoints(Val(result).breakdown) > 20
    /\ Val(result).rule_score = 20

\* C17: a broadcast that fails, or that has no publisher to go to, changes
\* nothing else: the call returns the alert it persisted, the alert is at
\* the front of the store in memory and on disk, its level is the one the
\* call resolved, and the alert is not handed to the publisher again
C17_BroadcastFailureIsHarmless ==
    (IsCall /\ last.pushed /\ last.emit \in {"throws", "none"}) =>
        /\ last.outcome = "saved"
        /\ Has(last.alert)
        /\ alerts[1] = Val(last.alert)
        /\ disk = alerts
        /\ Val(last.alert).level = last.resolved
        /\ Val(last.alert).status = "new"
        /\ emitted # last.alert

\* the publisher threw on a fused Priority alert and the alert is stored and
\* returned
C17_Witness ==
    /\ last.op = "resume" /\ last.pushed /\ last.emit = "throws"
    /\ last.outcome = "saved"
    /\ Val(last.alert).source = "fusion"
    /\ disk[1] = Val(last.alert)

----------------------------------------------------------------------------
(* Properties of the alert lifecycle *)

\* how far along new -> acknowledged/in_progress -> resolved a status is
StatusRank(status) ==
    CASE status = "new" -> 0
      [] status \in {"acknowledged", "in_progress"} -> 1
      [] status = "resolved" -> 2

\* C11: the status of an alert only moves forward along
\* new -> acknowledged/in_progress -> resolved: no operation takes a stored
\* alert to a status of lower rank
C11_StatusMonotonic ==
    [][\A i \in 1..Len(alerts) : \A j \in 1..Len(alerts') :
          alerts'[j].id = alerts[i].id =>
            StatusRank(alerts'[j].status) >= StatusRank(alerts[i].status)]_vars

\* C16: every status mutation is published: an operation that changes the
\* status of a stored alert hands the alert's new record to the publisher
C16_StatusChangePublished ==
    [][\A i \in 1..Len(alerts) : \A j \in 1..Len(alerts') :
          (alerts'[j].id = alerts[i].id /\ alerts'[j].status # alerts[i].status)
            => emitted' = Some(alerts'[j])]_vars

C27_CheckAndPushAtomic ==
    [][(last'.op = "evaluate" /\ last'.pushed /\ nextId' # nextId)
          => ~InWindow(alerts, last'.pid, Val(last'.alert).level, now)]_vars

\* C29: persist precedes publish: an alert handed to the publisher is the
\* alert the same call has just added to the store, where getAlert finds it
\* by its id, and a call whose push threw hands nothing to the publisher
C29_PersistBeforePublish ==
    [][/\ emitted' # emitted =>
            /\ last'.pushed
            /\ emitted' = last'.alert
            /\ getAlert(alerts', Val(emitted').id) = emitted'
            /\ getAlert(alerts, Val(emitted').id) = NULL
       /\ (last' # last /\ last'.raised /\ ~last'.pushed) => emitted' = emitted]_vars

\* a call resumed after the classifier stored a second alert and broadcast
\* it, and the store holds it
C29_Witness ==
    /\ last.op = "resume" /\ last.pushed /\ last.emit = "ok"
    /\ emitted = last.alert
    /\ Len(alerts) = 2
    /\ getAlert(alerts, Val(emitted).id) = emitted

----------------------------------------------------------------------------
(* Properties of the persisted file *)

RoundTripFields ==
    {"id", "level", "pid", "name", "status", "createdAt", "updatedAt",
     "acknowledgedAt", "resolvedAt", "timestamp"}

\* list `a` holds the alerts of list `b` in the same order with the same
\* identifier, level, patient, status and timestamps
SameAlerts(a, b) ==
    /\ Len(a) = Len(b)
    /\ \A i \in 1..Len(a) : \A f \in RoundTripFields : a[i][f] = b[i][f]

C18_StartsEmptyAndWorks ==
    [][/\ (last'.op = "restart" /\ last'.outcome # "loaded") => alerts' = <<>>
       /\ (last.op = "restart" /\ last.outcome # "loaded") =>
            /\ last'.pushed =>
                 /\ alerts' = <<Val(last'.alert)>>
                 /\ disk' = alerts'
                 /\ getAlert(alerts', Val(last'.alert).id) = last'.alert
            /\ last'.op = "assign" =>
                 /\ last'.outcome = "null"
                 /\ alerts' = <<>> /\ disk' = disk
            /\ last'.op = "clear" => alerts' = <<>> /\ disk' = <<>>]_vars

\* the process started on a file that could not be read while the file
\* held an alert, and the store is empty
C18_Witness ==
    /\ last.op = "restart" /\ last.outcome = "unreadable"
    /\ disk # <<>>
    /\ alerts = <<>>

----------------------------------------------------------------------------
(* Properties of the store at its capacity *)

\* C13: the store holds at most MAX_ALERTS alerts, newest first; a push
\* places the new alert at the front, keeps the others in their order and,
\* into a full store, drops exactly the oldest; an update keeps every alert
\* at its position; a reload gives the list that was stored
C13_CappedNewestFirst ==
    [][/\ Len(alerts') <= MAX_ALERTS
       /\ \A i \in 1..(Len(alerts') - 1) :
              alerts'[i].createdAt >= alerts'[i + 1].createdAt
       /\ last'.pushed =>
            /\ alerts'[1] = Val(last'.alert)
            /\ Len(alerts') = Min(Len(alerts) + 1, MAX_ALERTS)
            /\ \A i \in 2..Len(alerts') : alerts'[i] = alerts[i - 1]
       /\ last'.outcome = "updated" =>
            /\ Len(alerts') = Len(alerts)
            /\ \A i \in 1..Len(alerts) : alerts'[i].id = alerts[i].id
       /\ last'.op = "restart" => alerts' = alerts]_vars

\* a push into the full store put the alert at the front and dropped the
\* oldest alert, the one with identifier 1
C13_Witness ==
    /\ last.pushed
    /\ Len(alerts) = MAX_ALERTS
    /\ alerts[1] = Val(last.alert)
    /\ alerts[1].id = MAX_ALERTS + 1
    /\ alerts[MAX_ALERTS].id = 2

\* the store `mem` holds an alert with identifier `alertId` (getAlert does
\* not return null); position `hint` and the one after it are looked at first
Retrievable(mem, alertId, hint) ==
    \/ hint <= Len(mem) /\ mem[hint].id = alertId
    \/ hint + 1 <= Len(mem) /\ mem[hint + 1].id = alertId
    \/ \E j \in 1..Len(mem) : mem[j].id = alertId

\* C15 as amended: a stored alert stays retrievable by id through every
\* push, update, acknowledge, resolve and assign, except that a push into a
\* store that holds MAX_ALERTS alerts removes the oldest one
C15_RemovedOnlyByClearOrEviction ==
    [][last'.op \notin {"clear", "restart"} =>
          \A i \in 1..Len(alerts) :
              \/ Retrievable(alerts', alerts[i].id, i)
              \/ last'.pushed /\ Len(alerts) = MAX_ALERTS /\ i = MAX_ALERTS]_vars

\* after a push into the full store the alert that was the oldest is gone
\* and the one stored before it is still there
C15_Witness ==
    /\ last.pushed
    /\ Len(alerts) = MAX_ALERTS
    /\ getAlert(alerts, 1) = NULL
    /\ getAlert(alerts, 2) # NULL

\* C15 as stated: no operation other than clear removes a stored alert
C15_RemovedOnlyByClear ==
    [][last'.op \notin {"clear", "restart"} =>
          \A i \in 1..Len(alerts) : Retrievable(alerts', alerts[i].id, i)]_vars

----------------------------------------------------------------------------
(* Properties of the rule scorer *)

Pts(cond, n) == IF cond THEN n ELSE 0

\* a reading is present and lies in lo..hi (tenths where the model has them)
Within(x, lo, hi) == Has(x) /\ Val(x) >= lo /\ Val(x) <= hi

\* the magnitude table: the points of every factor that holds on the record,
\* each factor counted once
TablePoints(parsed) ==
    LET sys == IF Has(parsed.bp) THEN Val(parsed.bp).sys ELSE NULL
        dia == IF Has(parsed.bp) THEN Val(parsed.bp).dia ELSE NULL
        labs == parsed.labs
        bleeding == SomeIn(parsed.symptoms, BleedingPattern)
        anticoag == SomeIn(parsed.meds, AnticoagPattern)
        comorbs == Len(SelectSeq(parsed.comorbidities, LAMBDA c : c \in MajorComorbs))
        signs == Sign(Within(parsed.tempC, 380, 9999)) + Sign(Within(labs.wbc, 110, 9999))
                 + Sign(Within(parsed.hr, 90, 9999)) + Sign(Within(parsed.rr, 22, 9999))
                 + Sign(Within(parsed.spo2, 0, 93))
    IN  Pts(Within(parsed.age, 85, 9999), 3) + Pts(Within(parsed.age, 75, 84), 2)
        + Pts(Within(parsed.age, 65, 74), 1)
        + Pts(\E i \in 1..Len(parsed.procedureCodes) :
                 toLowerCase(parsed.procedureCodes[i]) \in HighRiskProcs, 3)
        + Pts(Within(parsed.tempC, 390, 9999), 4) + Pts(Within(parsed.tempC, 380, 389), 2)
        + Pts(Within(parsed.hr, 130, 9999), 3) + Pts(Within(parsed.hr, 110, 129), 2)
        + Pts(Within(parsed.hr, 0, 49), 2)
        + Pts(Within(parsed.rr, 30, 9999), 3) + Pts(Within(parsed.rr, 24, 29), 1)
        + Pts(SomeIn(parsed.symptoms, RespiratoryPattern \ ChestPainPattern), 3)
        + Pts(Within(parsed.spo2, 0, 89), 4) + Pts(Within(parsed.spo2, 90, 93), 2)
        + Pts(Within(sys, 0, 80) \/ Within(sys, 180, 9999), 3)
        + Pts(Within(dia, 110, 9999), 2)
        + Pts(\E i \in 1..Len(parsed.woundPhrases) : ~parsed.woundPhrases[i].negated, 3)
        + Pts(\E i \in 1..Len(parsed.drains) : Within(parsed.drains[i].ml, 200, 9999), 2)
        + Pts(bleeding, 4) + Pts(anticoag /\ ~bleeding, 1) + Pts(anticoag /\ bleeding, 2)
        + Pts(Within(labs.wbc, 150, 9999), 3) + Pts(Within(labs.wbc, 110, 149), 1)
        + Pts(Within(labs.wbc, 0, 39), 1)
        + Pts(Within(labs.lactate, 40, 9999), 4) + Pts(Within(labs.lactate, 20, 39), 2)
        + Pts(signs >= 3, 5)
        + Pts(Within(labs.cr, 20, 9999), 3) + Pts(Within(labs.cr, 15, 19), 1)
        + Pts(SomeIn(parsed.symptoms, OliguriaPattern), 3)
        + Pts(SomeIn(parsed.symptoms, MentalStatusPattern), 4)
        + Pts(SomeIn(parsed.symptoms, SeverePainPattern), 2)
        + Pts(SomeIn(parsed.symptoms, ChestPainPattern) \/ Has(labs.troponin)
              \/ NoteIncludes(parsed.notes, "elevated troponin"), 4)
        + Pts(SomeIn(parsed.symptoms, ArrhythmiaPattern), 2)
        + Pts(comorbs >= 2, 2) + Pts(comorbs = 1, 1)
        + Pts(Within(labs.hb, 0, 69), 4) + Pts(Within(labs.hb, 70, 89), 2)
        + Pts(Within(labs.platelets, 0, 499), 3)
        + Pts(SomeIn(parsed.meds, SteroidPattern), 1)
        + Pts(\E i \in 1..Len(redflagWords) : NoteIncludes(parsed.notes, redflagWords[i]), 5)

\* C22: the unclamped rule score of a record is the sum of the points of
\* the magnitude table over the factors that hold on it, each counted once
C22_ScoreIsTableSum ==
    Has(result) => SumPoints(Val(result).breakdown) = TablePoints(rec)

\* C23: the breakdown is ordered most significant first: the points of
\* its entries never increase along the list
C23_BreakdownMostSignificantFirst ==
    Has(result) =>
        \A i \in 1..(Len(Val(result).breakdown) - 1) :
            Val(result).breakdown[i].pts >= Val(result).breakdown[i + 1].pts

----------------------------------------------------------------------------
(* Properties of the cooldown *)

\* the step is a fusion call running up to its return or its suspension
CallStep == last'.op = "evaluate" /\ now' = now

\* the call of this step was suppressed by the cooldown
SuppressedStep ==
    /\ CallStep
    /\ last'.pid # ""
    /\ ~last'.pushed
    /\ last'.outcome \in {"existing", "null"}

SamePatient(a, patientId) == toLowerCase(a.pid) = toLowerCase(patientId)

\* among the CooldownLookback most recent alerts of the patient in `mem`
\* one has this level and a timestamp t with 0 <= now - t < 5 minutes
SeenInWindow(mem, patientId, level, t) ==
    \E i \in 1..Len(mem) :
        /\ SamePatient(mem[i], patientId)
        /\ Cardinality({j \in 1..i : SamePatient(mem[j], patientId)}) <= CooldownLookback
        /\ mem[i].level = level
        /\ t - mem[i].timestamp >= 0
        /\ t - mem[i].timestamp < COOLDOWN_MS

\* C21: a call suppressed by the cooldown returns an alert of its patient
\* and level that lies in the window, and returns null only if the store
\* holds no such alert
C21_SuppressedReturnsExisting ==
    [][SuppressedStep =>
          IF Has(last'.alert)
          THEN /\ SamePatient(Val(last'.alert), last'.pid)
               /\ Val(last'.alert).level = last'.resolved
               /\ now - Val(last'.alert).timestamp >= 0
               /\ now - Val(last'.alert).timestamp < COOLDOWN_MS
               /\ getAlert(alerts, Val(last'.alert).id) = last'.alert
          ELSE ~InWindow(alerts, last'.pid, last'.resolved, now)]_vars

\* C25: a call that resolves to Emergency or Priority while every stored
\* alert of its patient and level is stamped 5 minutes or more before now
\* is not suppressed: without a message it persists a new alert, with a
\* message it goes on to the classifier; the old alerts are still stored,
\* nothing having removed them
C25_CooldownExpiresLazily ==
    [][(/\ CallStep /\ last'.pid # ""
        /\ last'.resolved \in {"Emergency", "Priority"}
        /\ \E i \in 1..Len(alerts) :
              SamePatient(alerts[i], last'.pid) /\ alerts[i].level = last'.resolved
        /\ \A i \in 1..Len(alerts) :
              (SamePatient(alerts[i], last'.pid) /\ alerts[i].level = last'.resolved)
                 => now - alerts[i].timestamp >= COOLDOWN_MS)
          => /\ ~SuppressedStep
             /\ IF last'.msg /\ last'.resolved = "Priority"
                THEN last'.outcome = "suspended" /\ Len(pending') = Len(pending) + 1
                ELSE /\ last'.pushed /\ last'.outcome = "saved"
                     /\ alerts' = <<Val(last'.alert)>> \o alerts
                     /\ Val(last'.alert).level = last'.resolved
                     /\ disk' = alerts']_vars

\* exactly 5 minutes after the Priority alert was stored, with the clock
\* the only thing that moved, a Priority call persisted a new alert and the
\* old one is still in the store
C25_Witness ==
    /\ last.op = "evaluate" /\ last.final /\ last.pushed
    /\ last.resolved = "Priority"
    /\ now = COOLDOWN_MS
    /\ alerts = <<Val(last.alert)>> \o LookbackStore

\* C26: a call that resolves to Emergency or Priority is suppressed exactly
\* when one of the 20 most recent alerts of its patient (compared without
\* case) has its level and a timestamp t with 0 <= now - t < 5 minutes
C26_SuppressedIffSeenInWindow ==
    [][(CallStep /\ last'.pid # "" /\ last'.resolved \in {"Emergency", "Priority"})
          => (SuppressedStep <=> SeenInWindow(alerts, last'.pid, last'.resolved, now))]_vars

\* a Priority call persisted an alert although the store holds a Priority
\* alert of its patient stamped now, which is the 21st most recent
C26_Witness ==
    /\ last.op = "evaluate" /\ last.final /\ last.pushed
    /\ last.resolved = "Priority"
    /\ Len(alerts) = CooldownLookback + 3
    /\ \A i \in 2..(CooldownLookback + 1) : alerts[i].level = "Normal"
    /\ alerts[CooldownLookback + 2].level = "Priority"
    /\ SamePatient(alerts[CooldownLookback + 2], last.pid)
    /\ alerts[CooldownLookback + 2].timestamp = now

\* C30: a call without a patient id and a call suppressed by the cooldown
\* leave the store, the file, the publisher and the classifier untouched,
\* and a lifecycle request for an unknown alert id returns null and leaves
\* the store and the file untouched
C30_NoAlertNoEffect ==
    [][/\ (CallStep /\ last'.pid = "") => (last'.outcome = "null" /\ last'.alert = NULL)
       /\ ((CallStep /\ last'.pid = "") \/ SuppressedStep)
            => UNCHANGED <<alerts, disk, emitted, pending, nextId>>
       /\ (last'.op \in {"acknowledge", "resolve", "assign"} /\ last' # last)
            => /\ last'.outcome = "null" /\ last'.alert = NULL
               /\ UNCHANGED <<alerts, disk, emitted, pending, nextId>>]_vars

\* a Priority call with a message was suppressed: it returned the stored
\* Priority alert, nothing was broadcast and no call waits for the classifier
C30_Witness ==
    /\ last.op = "evaluate" /\ last.final /\ last.msg
    /\ last.resolved = "Priority" /\ last.outcome = "existing"
    /\ ~last.pushed
    /\ pending = <<>>
    /\ emitted # last.alert
    /\ disk = alerts

============================================================================
